---- MODULE Spec2Model ----
(***************************************************************************)
(* Model of the urban-climate simulator: ClimateSimulator                  *)
(* (src/simulation.py), ReliefDataProvider (src/relief_data.py) and the    *)
(* request handlers of src/server.py.                                      *)
(*                                                                         *)
(* Specifications.  Spec: the simulator's calls on a small grid.           *)
(* SpecBuildings: buildings added again and again.  SpecMap: the two       *)
(* coordinate mappers.  SpecRelief: the relief provider beside the         *)
(* simulator.  SpecServer: the intervene handler in front of the           *)
(* simulator.  SpecThreads: requests served in threads.  SpecWind: the     *)
(* wind of two cells in binary64.  SpecHeat: the temperature and wind of   *)
(* one cell in binary64.                                                   *)
(*                                                                         *)
(* Numbers.  The coordinate mappers are modelled in IEEE-754 binary64      *)
(* arithmetic (round to nearest, ties to even), because int() truncation   *)
(* turns a rounding error of one ulp into a different grid cell.  Field    *)
(* values (temperature, wind) are modelled as exact rationals: the         *)
(* temperature in units of 1/TempUnit degree, a wind component as a        *)
(* reduced fraction; the rounding of field values is abstracted, except in *)
(* SpecWind and SpecHeat.  Elevations are integers in units of 1/ElevUnit  *)
(* metre.                                                                  *)
(***************************************************************************)
EXTENDS Integers, Sequences, FiniteSets, Bags, TLC

(***************************************************************************)
(* Natural numbers of arbitrary size: little-endian sequences of limbs in  *)
(* base LimbBase, without leading zero limbs (zero is << >>).  They carry  *)
(* the 53-bit mantissas of Python floats and their exact products.         *)
(***************************************************************************)
LimbBase == 2 ^ 15

RECURSIVE IntBitLen(_)
IntBitLen(n) == IF n = 0 THEN 0 ELSE 1 + IntBitLen(n \div 2)

LimbBits == IntBitLen(LimbBase) - 1

Limb(a, i) == IF i <= Len(a) THEN a[i] ELSE 0

RECURSIVE BigStrip(_)
BigStrip(a) ==
    IF a = << >> THEN << >>
    ELSE IF a[Len(a)] = 0 THEN BigStrip(SubSeq(a, 1, Len(a) - 1))
    ELSE a

RECURSIVE BigOfInt(_)
BigOfInt(n) ==
    IF n = 0 THEN << >> ELSE <<n % LimbBase>> \o BigOfInt(n \div LimbBase)

RECURSIVE BigToInt(_)
BigToInt(a) ==
    IF a = << >> THEN 0 ELSE a[1] + LimbBase * BigToInt(Tail(a))

RECURSIVE BigAddFrom(_, _, _, _)
BigAddFrom(a, b, i, carry) ==
    IF i > Len(a) /\ i > Len(b)
    THEN IF carry = 0 THEN << >> ELSE <<carry>>
    ELSE LET s == Limb(a, i) + Limb(b, i) + carry
         IN  <<s % LimbBase>> \o BigAddFrom(a, b, i + 1, s \div LimbBase)

BigAdd(a, b) == BigAddFrom(a, b, 1, 0)

RECURSIVE BigSubFrom(_, _, _, _)
BigSubFrom(a, b, i, borrow) ==
    IF i > Len(a) THEN << >>
    ELSE LET s == a[i] - Limb(b, i) - borrow
         IN  IF s < 0
             THEN <<s + LimbBase>> \o BigSubFrom(a, b, i + 1, 1)
             ELSE <<s>> \o BigSubFrom(a, b, i + 1, 0)

\* a - b for a >= b
BigSub(a, b) == BigStrip(BigSubFrom(a, b, 1, 0))

RECURSIVE BigCmpFrom(_, _, _)
BigCmpFrom(a, b, i) ==
    IF i = 0 THEN 0
    ELSE IF a[i] > b[i] THEN 1
    ELSE IF a[i] < b[i] THEN -1
    ELSE BigCmpFrom(a, b, i - 1)

\* -1, 0 or 1 as a < b, a = b, a > b
BigCmp(a, b) ==
    IF Len(a) > Len(b) THEN 1
    ELSE IF Len(a) < Len(b) THEN -1
    ELSE BigCmpFrom(a, b, Len(a))

RECURSIVE BigMulSmallFrom(_, _, _, _)
BigMulSmallFrom(a, k, i, carry) ==
    IF i > Len(a)
    THEN IF carry = 0 THEN << >> ELSE <<carry>>
    ELSE LET s == a[i] * k + carry
         IN  <<s % LimbBase>> \o BigMulSmallFrom(a, k, i + 1, s \div LimbBase)

\* a * k for 0 <= k < LimbBase
BigMulSmall(a, k) == IF k = 0 THEN << >> ELSE BigMulSmallFrom(a, k, 1, 0)

RECURSIVE BigMul(_, _)
BigMul(a, b) ==
    IF a = << >> \/ b = << >> THEN << >>
    ELSE BigAdd(BigMulSmall(a, b[1]),
                IF Len(b) = 1 THEN << >> ELSE <<0>> \o BigMul(a, Tail(b)))

\* a * 2^k
BigShl(a, k) ==
    IF a = << >> THEN << >>
    ELSE [i \in 1..(k \div LimbBits) |-> 0] \o BigMulSmall(a, 2 ^ (k % LimbBits))

\* floor(a / 2^k)
BigShr(a, k) ==
    LET drop == k \div LimbBits
        bits == k % LimbBits
        rest == IF drop >= Len(a) THEN << >> ELSE SubSeq(a, drop + 1, Len(a))
    IN  BigStrip([i \in 1..Len(rest) |->
                    (rest[i] \div (2 ^ bits))
                    + (Limb(rest, i + 1) % (2 ^ bits)) * (2 ^ (LimbBits - bits))])

BigBitLen(a) ==
    IF a = << >> THEN 0 ELSE LimbBits * (Len(a) - 1) + IntBitLen(a[Len(a)])

BigIsOdd(a) == a # << >> /\ a[1] % 2 = 1

\* the largest d in lo..hi with b * d <= r, given b * lo <= r < b * (hi + 1)
RECURSIVE BigDigit(_, _, _, _)
BigDigit(r, b, lo, hi) ==
    IF lo = hi THEN lo
    ELSE LET mid == (lo + hi + 1) \div 2
         IN  IF BigCmp(BigMulSmall(b, mid), r) <= 0
             THEN BigDigit(r, b, mid, hi)
             ELSE BigDigit(r, b, lo, mid - 1)

\* one step of the long division: the remainder so far r0 takes the digit d
DivStep(b, r0, d, q) == << <<d>> \o q, BigSub(r0, BigMulSmall(b, d)) >>

DivDigit(b, r0, q) == DivStep(b, r0, BigDigit(r0, b, 0, LimbBase - 1), q)

\* long division of the limbs i..Len(a) of a by b: <<quotient limbs, remainder>>
RECURSIVE BigDivFrom(_, _, _)
DivLimb(a, b, i, hi) == DivDigit(b, BigStrip(<<a[i]>> \o hi[2]), hi[1])

BigDivFrom(a, b, i) ==
    IF i > Len(a) THEN << << >>, << >> >> ELSE DivLimb(a, b, i, BigDivFrom(a, b, i + 1))

StripQuotient(qr) == <<BigStrip(qr[1]), qr[2]>>

\* <<floor(a / b), a mod b>> for b > 0
BigDivMod(a, b) == StripQuotient(BigDivFrom(a, b, 1))

\* |a - b|
BigAbsDiff(a, b) == IF BigCmp(a, b) >= 0 THEN BigSub(a, b) ELSE BigSub(b, a)

(***************************************************************************)
(* Python floats: IEEE-754 binary64.  A finite value is (-1)^s * m * 2^e   *)
(* with m = 0 (e = 0, s = 0) or 2^52 <= m < 2^53; every operation returns  *)
(* the exact result rounded to nearest, ties to even, and a result of      *)
(* magnitude 2^1024 or more is infinity.  Subnormals and the sign of zero  *)
(* are not modelled: no value of the mappers comes near them.              *)
(***************************************************************************)
MantBits == 52 + 1
MaxExp == 2 ^ 10

FZero == [k |-> "fin", s |-> 0, m |-> << >>, e |-> 0]
FInf(s) == [k |-> "inf", s |-> s, m |-> << >>, e |-> 0]
FNaN == [k |-> "nan", s |-> 0, m |-> << >>, e |-> 0]

\* a finite float, or infinity if its magnitude is 2^1024 or more
FFinite(s, m, e) ==
    IF e + MantBits > MaxExp THEN FInf(s) ELSE [k |-> "fin", s |-> s, m |-> m, e |-> e]

\* c compares the discarded part with half a unit of the last kept place
TieBreak(c, sticky, odd) == c > 0 \/ (c = 0 /\ (sticky \/ odd))

\* whether m + t, cut to q = floor(m / 2^sh), rounds up
RoundsUp(m, sh, q, sticky) ==
    TieBreak(BigCmp(BigSub(m, BigShl(q, sh)), BigShl(<<1>>, sh - 1)), sticky, BigIsOdd(q))

\* a rounded mantissa q of 53 bits, or 2^53 after a carry
FPack(s, q, e) ==
    IF BigBitLen(q) > MantBits THEN FFinite(s, BigShr(q, 1), e + 1) ELSE FFinite(s, q, e)

FRoundCut(s, m, e, sticky, sh, q) ==
    FPack(s, IF RoundsUp(m, sh, q, sticky) THEN BigAdd(q, <<1>>) ELSE q, e + sh)

\* sh = (number of bits of m) - 53
FRoundShift(s, m, e, sticky, sh) ==
    IF sh <= 0 THEN FFinite(s, BigShl(m, -sh), e + sh)
    ELSE FRoundCut(s, m, e, sticky, sh, BigShr(m, sh))

\* the float nearest to (-1)^s * (m + t) * 2^e, where 0 < t < 1 if sticky, else t = 0
FRound(s, m, e, sticky) ==
    IF m = << >> THEN FZero ELSE FRoundShift(s, m, e, sticky, BigBitLen(m) - MantBits)

\* int -> float (exact for the integers of the model)
FOfInt(n) == FRound(IF n < 0 THEN 1 ELSE 0, BigOfInt(IF n < 0 THEN -n ELSE n), 0, FALSE)

FNeg(a) == IF a.k = "nan" \/ (a.k = "fin" /\ a.m = << >>) THEN a ELSE [a EXCEPT !.s = 1 - a.s]

\* (-1)^sa * ma * 2^e + (-1)^sb * mb * 2^e, rounded
FAddAligned(sa, ma, sb, mb, e) ==
    FRound(IF sa = sb \/ BigCmp(ma, mb) >= 0 THEN sa ELSE sb,
           IF sa = sb THEN BigAdd(ma, mb) ELSE BigAbsDiff(ma, mb),
           e, FALSE)

FAddAt(a, b, e) == FAddAligned(a.s, BigShl(a.m, a.e - e), b.s, BigShl(b.m, b.e - e), e)

\* an operand more than 64 binary places below the other does not change it
FAdd(a, b) ==
    IF a.k = "nan" \/ b.k = "nan" THEN FNaN
    ELSE IF a.k = "inf" THEN (IF b.k = "inf" /\ b.s # a.s THEN FNaN ELSE a)
    ELSE IF b.k = "inf" THEN b
    ELSE IF a.m = << >> THEN b
    ELSE IF b.m = << >> THEN a
    ELSE IF a.e - b.e > MantBits + 11 THEN a
    ELSE IF b.e - a.e > MantBits + 11 THEN b
    ELSE FAddAt(a, b, IF a.e < b.e THEN a.e ELSE b.e)

FSub(a, b) == FAdd(a, FNeg(b))

FMul(a, b) ==
    IF a.k = "nan" \/ b.k = "nan" THEN FNaN
    ELSE IF a.k = "inf" \/ b.k = "inf"
    THEN (IF (a.k = "fin" /\ a.m = << >>) \/ (b.k = "fin" /\ b.m = << >>)
          THEN FNaN ELSE FInf((a.s + b.s) % 2))
    ELSE FRound((a.s + b.s) % 2, BigMul(a.m, b.m), a.e + b.e, FALSE)

FDivRound(s, qr, e) == FRound(s, qr[1], e, qr[2] # << >>)

\* a / b for b # 0 (no divisor of the mappers is zero)
FDiv(a, b) ==
    IF a.k = "nan" \/ b.k = "nan" THEN FNaN
    ELSE IF a.k = "inf" THEN (IF b.k = "inf" THEN FNaN ELSE FInf((a.s + b.s) % 2))
    ELSE IF b.k = "inf" \/ a.m = << >> THEN FZero
    ELSE FDivRound((a.s + b.s) % 2, BigDivMod(BigShl(a.m, MantBits + 11), b.m),
                   a.e - b.e - (MantBits + 11))

\* a decimal literal num/den, e.g. 52.48 = FLit(5248, 100): the nearest float
FLit(num, den) == FDiv(FOfInt(num), FOfInt(den))

\* the integers int() can return are unbounded; the model saturates their
\* magnitude at IntCap, far outside every grid, before they are clamped
IntCap == 2 ^ 30

\* the integer part of m * 2^e, m # 0
IntPart(m, e) ==
    IF e + MantBits > 30 THEN IntCap
    ELSE IF e >= 0 THEN BigToInt(BigShl(m, e))
    ELSE IF -e >= MantBits THEN 0
    ELSE BigToInt(BigShr(m, -e))

\* (variant) an int() that turns an infinity or a NaN into 0 without raising
FIntLenient(a) ==
    IF a.k # "fin" \/ a.m = << >> THEN [err |-> "none", v |-> 0]
    ELSE [err |-> "none", v |-> IF a.s = 1 THEN -IntPart(a.m, a.e) ELSE IntPart(a.m, a.e)]

\* int(a): truncation toward zero, [err |-> "none", v |-> n]; Python raises
\* OverflowError for an infinity and ValueError for a NaN
FInt(a) ==
    IF a.k = "inf" THEN [err |-> "OverflowError", v |-> 0]
    ELSE IF a.k = "nan" THEN [err |-> "ValueError", v |-> 0]
    ELSE IF a.m = << >> THEN [err |-> "none", v |-> 0]
    ELSE [err |-> "none", v |-> IF a.s = 1 THEN -IntPart(a.m, a.e) ELSE IntPart(a.m, a.e)]

(***************************************************************************)
(* ClimateSimulator: the coordinate mapper (centre plus 100 m cells).      *)
(***************************************************************************)
base_lat == FLit(5248, 100)
base_lon == FLit(1343, 100)

\* np.cos(np.radians(52.48)) = 0x1.37d3df0b3fed6p-1 = 5485729542307542 * 2^-53
CosBaseLat ==
    [k |-> "fin", s |-> 0, m |-> <<32470, 24935, 29943, 155>>, e |-> -MantBits]

MetersPerDegree == 111000
CellMeters == 100

\* max(0, min(i, n - 1))
Clamp(i, n) == IF i < 0 THEN 0 ELSE IF i < n - 1 THEN i ELSE n - 1

\* the clamp applied to what int() returned
Clamped(i, n) == [i EXCEPT !.v = Clamp(i.v, n)]

\* max(0, min(int(size / 2 + offset / 100), size - 1)), or the error int() raises
GridIndex(size, offset) ==
    Clamped(FInt(FAdd(FDiv(FOfInt(size), FOfInt(2)), FDiv(offset, FOfInt(CellMeters)))), size)

\* latlon_to_grid, one axis each: x from lon, y from lat
LonToX(W, lon) ==
    GridIndex(W, FMul(FMul(FSub(lon, base_lon), FOfInt(MetersPerDegree)), CosBaseLat))

LatToY(H, lat) ==
    GridIndex(H, FMul(FSub(lat, base_lat), FOfInt(MetersPerDegree)))

\* grid_to_latlon, one axis each
XToLon(W, x) ==
    FAdd(base_lon,
         FDiv(FMul(FSub(FOfInt(x), FDiv(FOfInt(W), FOfInt(2))), FOfInt(CellMeters)),
              FMul(FOfInt(MetersPerDegree), CosBaseLat)))

YToLat(H, y) ==
    FAdd(base_lat,
         FDiv(FMul(FSub(FOfInt(y), FDiv(FOfInt(H), FOfInt(2))), FOfInt(CellMeters)),
              FOfInt(MetersPerDegree)))

(***************************************************************************)
(* ReliefDataProvider: the coordinate mapper (bounding box).               *)
(***************************************************************************)
lat_bounds == <<FLit(5245, 100), FLit(5251, 100)>>
lon_bounds == <<FLit(1338, 100), FLit(1348, 100)>>

\* max(0, min(int((v - lo) / (hi - lo) * size), size - 1)), or the error int() raises
ReliefIndex(size, bounds, v) ==
    Clamped(FInt(FMul(FDiv(FSub(v, bounds[1]), FSub(bounds[2], bounds[1])), FOfInt(size))),
            size)

\* lo + (i / size) * (hi - lo)
ReliefCoord(size, bounds, i) ==
    FAdd(bounds[1], FMul(FDiv(FOfInt(i), FOfInt(size)), FSub(bounds[2], bounds[1])))

(***************************************************************************)
(* Exact rationals <<numerator, denominator>> in lowest terms, for the     *)
(* wind components.                                                        *)
(***************************************************************************)
RECURSIVE GCD(_, _)
GCD(a, b) == IF b = 0 THEN a ELSE GCD(b, a % b)

Abs(n) == IF n < 0 THEN -n ELSE n

Rat(n, d) == LET g == GCD(Abs(n), d) IN <<n \div g, d \div g>>

RatMul(p, q) == Rat(p[1] * q[1], p[2] * q[2])

(***************************************************************************)
(* ClimateSimulator: configuration.                                        *)
(***************************************************************************)
\* grid_size of the modelled instance, and the number of apply_intervention
\* calls a behaviour makes
GridW == 6
GridH == 5
MaxCalls == 2

grid_width == GridW
grid_height == GridH

Cells == (0..(grid_width - 1)) \X (0..(grid_height - 1))

\* temperatures are integers in units of 1/TempUnit degree: every delta is a
\* multiple of 1/2 and every damped share is delta * 1/2 * 1/n with n in
\* {2, 3, 5, 6, 9}
TempUnit == 2 * 2 * 90

BaseTempDeg == 30
BaseWindU == 2
BaseWindV == 1

Types ==
    {"ADD_PARK", "ADD_WATER", "REMOVE_ASPHALT", "ADD_ASPHALT", "ADD_BUILDING",
     "REMOVE_BUILDING"}

TEMP_COEFFICIENTS ==
    [ADD_PARK       |-> -2 * TempUnit,
     ADD_WATER      |-> -3 * TempUnit,
     REMOVE_ASPHALT |-> 1 * TempUnit,
     ADD_ASPHALT    |-> (5 * TempUnit) \div 2,
     ADD_BUILDING   |-> (3 * TempUnit) \div 2]

ShadowFactor == <<1, 2>>
ChannelFactor == <<13, 10>>

\* latlon_to_grid: [err, x, y]; x is computed (and may raise) before y
CellOf(x, y) == [err |-> IF x.err # "none" THEN x.err ELSE y.err, x |-> x.v, y |-> y.v]

latlon_to_grid(lat, lon) == CellOf(LonToX(grid_width, lon), LatToY(grid_height, lat))

\* latlon_to_grid(base_lat, base_lon) of a simulator with the default grid_size
DefaultGridSize == 50

DefaultCentre ==
    CellOf(LonToX(DefaultGridSize, base_lon), LatToY(DefaultGridSize, base_lat))

\* grid_to_latlon: <<lat, lon>>
grid_to_latlon(x, y) == <<YToLat(grid_height, y), XToLon(grid_width, x)>>

(***************************************************************************)
(* The wind-shadow and wind-channel offsets.                               *)
(***************************************************************************)
\* (variant) no wind is too slow to have a direction
SlowWindNever(u, v) == FALSE

\* np.sqrt(u**2 + v**2) < 0.1, decided exactly: 100 * (U^2 + V^2) < D^2 for
\* u = U / D, v = V / D
SlowWind(u, v) ==
    LET D  == (u[2] * v[2]) \div GCD(u[2], v[2])
        U  == BigOfInt(Abs(u[1]) * (D \div u[2]))
        V  == BigOfInt(Abs(v[1]) * (D \div v[2]))
        DD == BigOfInt(D)
    IN  BigCmp(BigMulSmall(BigAdd(BigMul(U, U), BigMul(V, V)), 100), BigMul(DD, DD)) < 0

\* the integers <<a, b>> in lowest terms with (a, b) a positive multiple of (u, v)
Direction(u, v) ==
    LET g1 == GCD(Abs(u[1]), Abs(v[1]))
        g2 == GCD(u[2], v[2])
    IN  <<(u[1] \div g1) * (v[2] \div g2), (v[1] \div g1) * (u[2] \div g2)>>

\* int(np.round(p / sqrt(q))) for |p / sqrt(q)| <= nmax: the nearest integer,
\* a tie going to the even one
RoundRoot(p, q, nmax) ==
    LET ns == {n \in 1..nmax : (2 * n - 1) * (2 * n - 1) * q <= 4 * p * p}
        N  == Cardinality(ns)
        n  == IF N > 0 /\ (2 * N - 1) * (2 * N - 1) * q = 4 * p * p /\ N % 2 = 1
              THEN N - 1 ELSE N
    IN  IF p < 0 THEN -n ELSE n

\* (variant) the offsets taken along the wind instead of against it
get_wind_windward_cells(u, v) ==
    IF SlowWind(u, v) THEN << >>
    ELSE LET d == Direction(u, v)
             q == d[1] * d[1] + d[2] * d[2]
         IN  [dist \in 1..3 |->
                <<RoundRoot(d[1] * dist, q, dist), RoundRoot(d[2] * dist, q, dist)>>]

\* the offsets (dx, dy) of the cells behind the building, distances 1..3
get_wind_shadow_cells(u, v) ==
    IF SlowWind(u, v) THEN << >>
    ELSE LET d == Direction(u, v)
             q == d[1] * d[1] + d[2] * d[2]
         IN  [dist \in 1..3 |->
                <<RoundRoot(-d[1] * dist, q, dist), RoundRoot(-d[2] * dist, q, dist)>>]

\* the offsets of the cells left and right of the wind, distances 1..2
get_wind_channel_cells(u, v) ==
    IF SlowWind(u, v) THEN << >>
    ELSE LET d == Direction(u, v)
             q == d[1] * d[1] + d[2] * d[2]
         IN  [i \in 1..4 |->
                LET dist == (i + 1) \div 2
                IN  IF i % 2 = 1
                    THEN <<RoundRoot(-d[2] * dist, q, dist), RoundRoot(d[1] * dist, q, dist)>>
                    ELSE <<RoundRoot(d[2] * dist, q, dist), RoundRoot(-d[1] * dist, q, dist)>>]

(***************************************************************************)
(* The state.  A numpy array and a Python list are objects: `arrays` and   *)
(* `lists` map the identities of the live objects to their contents, and   *)
(* the fields of the simulator (`self`) hold identities, so that two       *)
(* fields naming one object see each other's writes.                       *)
(***************************************************************************)
VARIABLES
    self,      \* the fields base_temp .. current_wind_v, interventions: object identities
    arrays,    \* identity -> [cell -> value] of every live array
    lists,     \* identity -> sequence of records of every live list
    result,    \* what the last call returned or raised
    last,      \* the last call and its arguments (of reset: what it found)
    writes,    \* the array stores of the last call: [ref, x, y], indices as written
    calls      \* number of apply_intervention calls so far

vars == <<self, arrays, lists, result, last, writes, calls>>

ArrayFields ==
    {"base_temp", "base_wind_u", "base_wind_v",
     "current_temp", "current_wind_u", "current_wind_v",
     "elevation_grid", "twin"}

\* the smallest identity not in use
Alloc(h) ==
    CHOOSE i \in 1..(Cardinality(DOMAIN h) + 1) :
        i \notin DOMAIN h /\ \A j \in 1..(i - 1) : j \in DOMAIN h

\* the heap without the objects no field of s names any more
Collect(h, s) ==
    LET live == {s[f] : f \in ArrayFields \cap DOMAIN s}
    IN  [i \in DOMAIN h \cap live |-> h[i]]

\* np.full(grid_size, value): a new array
Full(h, value) ==
    LET a == Alloc(h) IN [h |-> h @@ (a :> [c \in Cells |-> value]), ref |-> a]

\* (variant) an assignment where the copy belongs
CopyArrayAliased(h, ref) == [h |-> h, ref |-> ref]

\* ndarray.copy(): a new array with the contents of ref
CopyArray(h, ref) ==
    LET a == Alloc(h) IN [h |-> h @@ (a :> h[ref]), ref |-> a]

\* (variant) the guard without its lower bounds
InGridUpperOnly(nx, ny) == nx < grid_width /\ ny < grid_height

\* the guard of every neighbour store
InGrid(nx, ny) == 0 <= nx /\ nx < grid_width /\ 0 <= ny /\ ny < grid_height

\* numpy indexing: an index i of an axis of length n is valid for -n <= i < n,
\* and a negative one counts from the end
ValidIndex(i, n) == -n <= i /\ i < n
NpIndex(i, n) == IF i < 0 THEN i + n ELSE i

NpCell(nx, ny) == <<NpIndex(nx, grid_width), NpIndex(ny, grid_height)>>

\* A memory m = [h, err, w] threads the heap through the statements of a call:
\* err is the exception raised so far ("none"), after which nothing executes.
Load(m, ref, nx, ny) == m.h[ref][NpCell(nx, ny)]

Store(m, ref, nx, ny, val) ==
    IF m.err # "none" THEN m
    ELSE IF ~(ValidIndex(nx, grid_width) /\ ValidIndex(ny, grid_height))
    THEN [m EXCEPT !.err = "IndexError"]
    ELSE [h   |-> [m.h EXCEPT ![ref][NpCell(nx, ny)] = val],
          err |-> "none",
          w   |-> Append(m.w, [ref |-> ref, x |-> nx, y |-> ny])]

\* (variant) the damping applied to the size of the impact, its sign lost
DampedAbs(impact, dx, dy) == Abs(impact) \div ((1 + dx * dx + dy * dy) * 2)

\* (variant) the damping without the factor 0.5
DampedFull(impact, dx, dy) == impact \div (1 + dx * dx + dy * dy)

\* impact * damping * 0.5 with damping = 1 / (1 + dx^2 + dy^2)
Damped(impact, dx, dy) == impact \div ((1 + dx * dx + dy * dy) * 2)

\* propagate_heat_effect: the loops over dx, dy in range(-2, 3), from the k-th pair on
RECURSIVE PropagateFrom(_, _, _, _, _, _)
PropagateFrom(m, grid, cx, cy, impact, k) ==
    IF k >= 25 THEN m
    ELSE LET dx == (k \div 5) - 2
             dy == (k % 5) - 2
             nx == cx + dx
             ny == cy + dy
         IN  IF (dx = 0 /\ dy = 0) \/ ~InGrid(nx, ny)
             THEN PropagateFrom(m, grid, cx, cy, impact, k + 1)
             ELSE PropagateFrom(
                      Store(m, grid, nx, ny, Load(m, grid, nx, ny) + Damped(impact, dx, dy)),
                      grid, cx, cy, impact, k + 1)

propagate_heat_effect(m, grid, cx, cy, impact) == PropagateFrom(m, grid, cx, cy, impact, 0)

\* for dx, dy in cells: the in-grid cells get both wind components scaled
RECURSIVE ScaleWind(_, _, _, _, _, _)
ScaleWind(m, s, x, y, cells, factor) ==
    IF cells = << >> THEN m
    ELSE LET nx == x + cells[1][1]
             ny == y + cells[1][2]
         IN  IF ~InGrid(nx, ny) THEN ScaleWind(m, s, x, y, Tail(cells), factor)
             ELSE LET m1 == Store(m, s.current_wind_u, nx, ny,
                                  RatMul(Load(m, s.current_wind_u, nx, ny), factor))
                      m2 == Store(m1, s.current_wind_v, nx, ny,
                                  RatMul(Load(m1, s.current_wind_v, nx, ny), factor))
                  IN  ScaleWind(m2, s, x, y, Tail(cells), factor)

\* (variant) a REMOVE_BUILDING that restores nothing
RestoreWindSkipped(m, s, x, y, cells) == m

\* for dx, dy in cells: the in-grid cells get the base wind back
RECURSIVE RestoreWind(_, _, _, _, _)
RestoreWind(m, s, x, y, cells) ==
    IF cells = << >> THEN m
    ELSE LET nx == x + cells[1][1]
             ny == y + cells[1][2]
         IN  IF ~InGrid(nx, ny) THEN RestoreWind(m, s, x, y, Tail(cells))
             ELSE LET m1 == Store(m, s.current_wind_u, nx, ny, Load(m, s.base_wind_u, nx, ny))
                      m2 == Store(m1, s.current_wind_v, nx, ny, Load(m1, s.base_wind_v, nx, ny))
                  IN  RestoreWind(m2, s, x, y, Tail(cells))

\* (variant) the centre cell set from the base temperature instead of raised
TemperatureEffectFromBase(m, s, action_type, x, y) ==
    IF action_type \in DOMAIN TEMP_COEFFICIENTS
    THEN propagate_heat_effect(
             Store(m, s.current_temp, x, y,
                   Load(m, s.base_temp, x, y) + TEMP_COEFFICIENTS[action_type]),
             s.current_temp, x, y, TEMP_COEFFICIENTS[action_type])
    ELSE m

\* the temperature statements of apply_intervention
TemperatureEffect(m, s, action_type, x, y) ==
    IF action_type \in DOMAIN TEMP_COEFFICIENTS
    THEN LET impact == TEMP_COEFFICIENTS[action_type]
             m1 == Store(m, s.current_temp, x, y, Load(m, s.current_temp, x, y) + impact)
         IN  propagate_heat_effect(m1, s.current_temp, x, y, impact)
    ELSE m

\* the wind statements of apply_intervention
WindEffect(m, s, action_type, x, y) ==
    IF action_type = "ADD_BUILDING"
    THEN LET u  == Load(m, s.current_wind_u, x, y)
             v  == Load(m, s.current_wind_v, x, y)
             m1 == ScaleWind(m, s, x, y, get_wind_shadow_cells(u, v), ShadowFactor)
         IN  ScaleWind(m1, s, x, y, get_wind_channel_cells(u, v), ChannelFactor)
    ELSE IF action_type = "REMOVE_BUILDING"
    THEN LET u == Load(m, s.base_wind_u, x, y)
             v == Load(m, s.base_wind_v, x, y)
         IN  RestoreWind(m, s, x, y, get_wind_shadow_cells(u, v))
    ELSE m

(***************************************************************************)
(* get_state: the snapshot.                                                *)
(***************************************************************************)
sample_rate == 2

\* for x in range(0, W, 2): for y in range(0, H, 2), in loop order
SampleCells ==
    LET nys == (grid_height + sample_rate - 1) \div sample_rate
        nxs == (grid_width + sample_rate - 1) \div sample_rate
    IN  [k \in 1..(nxs * nys) |->
            <<sample_rate * ((k - 1) \div nys), sample_rate * ((k - 1) % nys)>>]

\* the cell with flattened (C order) index k of an array of shape (W, H)
FlatCell(k) == <<k \div grid_height, k % grid_height>>

\* a function as an explicit table: its values are computed once, not per use
Table(f) == f @@ << >>

\* the geographic coordinate <<lat, lon>> of every cell, by grid_to_latlon
GeoOf == Table([c \in Cells |-> grid_to_latlon(c[1], c[2])])

RECURSIVE SumFrom(_, _)
SumFrom(arr, k) ==
    IF k >= grid_width * grid_height THEN 0 ELSE arr[FlatCell(k)] + SumFrom(arr, k + 1)

\* the sum of the cells; an array of positive integers is the bag that holds
\* cell c arr[c] times, and its sum is the size of that bag
Sum(arr) ==
    IF \A c \in Cells : arr[c] > 0 THEN BagCardinality(arr) ELSE SumFrom(arr, 0)

\* np.mean: a rational in units of 1/TempUnit degree
Mean(arr) == Rat(Sum(arr), grid_width * grid_height)

Largest(vs) == CHOOSE v \in vs : \A w \in vs : w <= v

\* the first flattened index holding mx
First(arr, mx) ==
    CHOOSE k \in 0..(grid_width * grid_height - 1) :
        arr[FlatCell(k)] = mx /\ \A j \in 0..(k - 1) : arr[FlatCell(j)] # mx

\* (variant) the maximum taken over the sampled cells only
ArgMaxSampled(arr) ==
    First(arr, Largest({arr[SampleCells[k]] : k \in DOMAIN SampleCells}))

\* np.argmax: the first flattened index holding the maximum
ArgMax(arr) == First(arr, Largest({arr[c] : c \in Cells}))

\* np.sqrt(u**2 + v**2), kept as the term it is computed from
Magnitude(u, v) == [sqrt_of_squares |-> <<u, v>>]

Snapshot(geo, temp, wu, wv, hot, base, lst) ==
    [kind             |-> "snapshot",
     temperature_data |-> [k \in DOMAIN SampleCells |->
                              <<geo[SampleCells[k]][1], geo[SampleCells[k]][2],
                                temp[SampleCells[k]]>>],
     wind_data        |-> [k \in DOMAIN SampleCells |->
                              <<geo[SampleCells[k]][1], geo[SampleCells[k]][2],
                                wu[SampleCells[k]], wv[SampleCells[k]],
                                Magnitude(wu[SampleCells[k]], wv[SampleCells[k]])>>],
     hotspot          |-> [lat |-> geo[hot][1], lon |-> geo[hot][2], temp |-> temp[hot]],
     base_temp        |-> Mean(base),
     current_avg_temp |-> Mean(temp),
     interventions    |-> lst]

get_state(s, h) ==
    Snapshot(GeoOf, h[s.current_temp], h[s.current_wind_u], h[s.current_wind_v],
             FlatCell(ArgMax(h[s.current_temp])), h[s.base_temp], s.interventions)

Raised(e) == [kind |-> "raised", error |-> e]

(***************************************************************************)
(* The calls.                                                              *)
(***************************************************************************)
\* 2.0 ** 1020, a finite float
Huge == [k |-> "fin", s |-> 0, m |-> BigShl(<<1>>, MantBits - 1), e |-> 1020 - (MantBits - 1)]

\* the coordinates a caller passes: the centre, far outside to the north-east
\* and to the south-west, and a finite latitude whose offset in metres overflows
Coords ==
    {[lat |-> base_lat, lon |-> base_lon],
     [lat |-> FOfInt(60), lon |-> FOfInt(20)],
     [lat |-> FOfInt(40), lon |-> FOfInt(5)],
     [lat |-> Huge, lon |-> base_lon]}

\* latlon_to_grid of every coordinate of Coords
CoordCell == Table([c \in Coords |-> latlon_to_grid(c.lat, c.lon)])

\* __init__: three np.full arrays, their three copies, an empty list
Constructed(bt, bu, bv, ct, cu, cv) ==
    /\ self = [base_temp |-> bt.ref, base_wind_u |-> bu.ref, base_wind_v |-> bv.ref,
               current_temp |-> ct.ref, current_wind_u |-> cu.ref,
               current_wind_v |-> cv.ref, interventions |-> 1]
    /\ arrays = cv.h
    /\ lists = (1 :> << >>)

Copies(bt, bu, bv, ct) ==
    Constructed(bt, bu, bv, ct, CopyArray(ct.h, bu.ref),
                CopyArray(CopyArray(ct.h, bu.ref).h, bv.ref))

Bases(bt, bu) ==
    Copies(bt, bu, Full(bu.h, <<BaseWindV, 1>>),
           CopyArray(Full(bu.h, <<BaseWindV, 1>>).h, bt.ref))

Init ==
    /\ Bases(Full(<< >>, BaseTempDeg * TempUnit),
             Full(Full(<< >>, BaseTempDeg * TempUnit).h, <<BaseWindU, 1>>))
    /\ result = [kind |-> "none"]
    /\ last = [op |-> "__init__"]
    /\ writes = << >>
    /\ calls = 0

\* the statements after latlon_to_grid returned g: the record, the two effects
\* and the snapshot; a raised exception leaves what was done before it
Effects(m, s, action_type, g) ==
    WindEffect(TemperatureEffect(m, s, action_type, g.x, g.y), s, action_type, g.x, g.y)

Returned(m, s) == IF m.err = "none" THEN get_state(s, m.h) ELSE Raised(m.err)

ApplyStored(m, s) ==
    /\ arrays' = m.h
    /\ writes' = m.w
    /\ result' = Returned(m, s)

ApplyAt(action_type, c, g) ==
    IF g.err # "none"
    THEN /\ result' = Raised(g.err)
         /\ writes' = << >>
         /\ UNCHANGED <<arrays, lists>>
    ELSE /\ lists' = [lists EXCEPT ![self.interventions] =
                         Append(@, [type |-> action_type, lat |-> c.lat, lon |-> c.lon,
                                    x |-> g.x, y |-> g.y])]
         /\ ApplyStored(Effects([h |-> arrays, err |-> "none", w |-> << >>],
                                self, action_type, g), self)

\* the call with its coordinate resolved to g
ApplyCall(action_type, c, g) ==
    /\ calls' = calls + 1
    /\ last' = [op |-> "apply_intervention", type |-> action_type, lat |-> c.lat, lon |-> c.lon]
    /\ self' = self
    /\ ApplyAt(action_type, c, g)

apply_intervention(action_type, c) ==
    /\ calls < MaxCalls
    /\ ApplyCall(action_type, c, CoordCell[c])

\* (variant) a get_state that consumes the history it reports
GetStateDraining ==
    /\ result' = get_state(self, arrays)
    /\ last' = [op |-> "get_state"]
    /\ writes' = << >>
    /\ lists' = [lists EXCEPT ![self.interventions] = << >>]
    /\ UNCHANGED <<self, arrays, calls>>


GetState ==
    /\ result' = get_state(self, arrays)
    /\ last' = [op |-> "get_state"]
    /\ writes' = << >>
    /\ UNCHANGED <<self, arrays, lists, calls>>

\* self.<field> = self.<base>.copy(): the field names the copy, and the array it
\* named before is gone unless another field names it
Bound(s, field, copied) ==
    [s |-> [s EXCEPT ![field] = copied.ref],
     h |-> Collect(copied.h, [s EXCEPT ![field] = copied.ref])]

\* (variant) a reset that leaves the field as it is
RebindSkipped(st, field, base) == st

Rebind(st, field, base) == Bound(st.s, field, CopyArray(st.h, st.s[base]))

\* self.interventions = []: a new list
NewList(st, l) == [s |-> [st.s EXCEPT !.interventions = l], h |-> st.h, l |-> l]

ResetTo(st) ==
    /\ self' = st.s
    /\ arrays' = st.h
    /\ lists' = (st.l :> << >>)
    /\ result' = get_state(st.s, st.h)

reset ==
    /\ ResetTo(NewList(Rebind(Rebind(Rebind([s |-> self, h |-> arrays],
                                            "current_temp", "base_temp"),
                                     "current_wind_u", "base_wind_u"),
                              "current_wind_v", "base_wind_v"),
                       Alloc(lists)))
    /\ last' = [op |-> "reset", records |-> Len(lists[self.interventions]),
                 changed |-> {f \in {"temp", "wind_u", "wind_v"} :
                                 arrays[self["current_" \o f]] # arrays[self["base_" \o f]]}]
    /\ writes' = << >>
    /\ UNCHANGED calls

Next ==
    \/ \E t \in Types, c \in Coords : apply_intervention(t, c)
    \/ GetState
    \/ reset

Spec == Init /\ [][Next]_vars

(***************************************************************************)
(* Buildings in a row: the same simulator under longer call sequences of   *)
(* ADD_BUILDING alone, at the centre and one cell to the west of it, the   *)
(* first shadow cell of a building at the centre.                          *)
(***************************************************************************)
MaxBuildings == 6

BuildingCoords ==
    {[lat |-> base_lat, lon |-> base_lon],
     [lat |-> base_lat, lon |-> FLit(13429, 1000)]}

\* latlon_to_grid of every coordinate of BuildingCoords
BuildingCell == Table([c \in BuildingCoords |-> latlon_to_grid(c.lat, c.lon)])

add_building(c) ==
    /\ calls < MaxBuildings
    /\ ApplyCall("ADD_BUILDING", c, BuildingCell[c])

NextBuildings == \E c \in BuildingCoords : add_building(c)

SpecBuildings == Init /\ [][NextBuildings]_vars

(***************************************************************************)
(* The two coordinate mappers as pure functions, at the sizes the server   *)
(* constructs them with: a behaviour of SpecMap takes one input, a cell or *)
(* a coordinate, and applies grid_to_latlon and latlon_to_grid to it.      *)
(* Here `self` is the mapper, `last` the input or the call, `result` what  *)
(* the call returned.                                                      *)
(***************************************************************************)
ReliefGridSize == 100

Mappers == {"climate", "relief"}

\* grid_width = grid_height of the mapper
MapSize(mapper) == IF mapper = "climate" THEN DefaultGridSize ELSE ReliefGridSize

\* grid_to_latlon of the mapper, one axis: the longitude of x ("x") or the
\* latitude of y ("y")
MapToGeo(mapper, axis, i) ==
    IF mapper = "climate"
    THEN (IF axis = "x" THEN XToLon(DefaultGridSize, i) ELSE YToLat(DefaultGridSize, i))
    ELSE ReliefCoord(ReliefGridSize, IF axis = "x" THEN lon_bounds ELSE lat_bounds, i)

\* latlon_to_grid of the mapper, one axis: [err, v]
MapToIndex(mapper, axis, v) ==
    IF mapper = "climate"
    THEN (IF axis = "x" THEN LonToX(DefaultGridSize, v) ELSE LatToY(DefaultGridSize, v))
    ELSE ReliefIndex(ReliefGridSize, IF axis = "x" THEN lon_bounds ELSE lat_bounds, v)

AxisKeys ==
    {<<mapper, axis, i>> : mapper \in {"climate"}, axis \in {"x", "y"},
                           i \in 0..(DefaultGridSize - 1)}
    \cup {<<mapper, axis, i>> : mapper \in {"relief"}, axis \in {"x", "y"},
                                i \in 0..(ReliefGridSize - 1)}

\* grid_to_latlon of every index of every axis
ToGeoTable == Table([k \in AxisKeys |-> MapToGeo(k[1], k[2], k[3])])

\* the coordinates passed to latlon_to_grid directly: inside the area, outside
\* it in either direction, and finite but of a magnitude that overflows
MapLats == {base_lat, FOfInt(60), FOfInt(40), Huge}
MapLons == {base_lon, FOfInt(20), FOfInt(5), FNeg(Huge)}

IndexKeys ==
    {<<k[1], k[2], ToGeoTable[k]>> : k \in AxisKeys}
    \cup {<<mapper, "y", lat>> : mapper \in Mappers, lat \in MapLats}
    \cup {<<mapper, "x", lon>> : mapper \in Mappers, lon \in MapLons}

\* latlon_to_grid of every coordinate it is applied to
ToIndexTable == Table([k \in IndexKeys |-> MapToIndex(k[1], k[2], k[3])])

\* what latlon_to_grid returns or raises; the climate mapper computes x
\* first, the relief mapper y
MapCell(mapper, x, y) ==
    IF x.err = "none" /\ y.err = "none"
    THEN [kind |-> "cell", x |-> x.v, y |-> y.v]
    ELSE IF mapper = "climate"
    THEN Raised(IF x.err # "none" THEN x.err ELSE y.err)
    ELSE Raised(IF y.err # "none" THEN y.err ELSE x.err)

MapConstructed(mapper) ==
    /\ self = [mapper |-> mapper, grid_width |-> MapSize(mapper),
               grid_height |-> MapSize(mapper)]
    /\ arrays = << >>
    /\ lists = << >>
    /\ writes = << >>
    /\ calls = 0
    /\ result = [kind |-> "none"]

MapInit ==
    \E mapper \in Mappers :
        /\ MapConstructed(mapper)
        /\ \/ \E x, y \in 0..(MapSize(mapper) - 1) : last = [op |-> "input", x |-> x, y |-> y]
           \/ \E lat \in MapLats, lon \in MapLons :
                  last = [op |-> "input", lat |-> lat, lon |-> lon]

\* grid_to_latlon(x, y) of the input cell
MapGridToLatLon ==
    /\ last.op = "input"
    /\ "x" \in DOMAIN last
    /\ result' = [kind |-> "geo",
                  lat |-> ToGeoTable[<<self.mapper, "y", last.y>>],
                  lon |-> ToGeoTable[<<self.mapper, "x", last.x>>]]
    /\ last' = [op |-> "grid_to_latlon", x |-> last.x, y |-> last.y]
    /\ UNCHANGED <<self, arrays, lists, writes, calls>>

\* latlon_to_grid(lat, lon); cell is the cell the coordinate was made from,
\* or << >>
MapLatLonToGrid(lat, lon, cell) ==
    /\ result' = MapCell(self.mapper, ToIndexTable[<<self.mapper, "x", lon>>],
                         ToIndexTable[<<self.mapper, "y", lat>>])
    /\ last' = [op |-> "latlon_to_grid", lat |-> lat, lon |-> lon, cell |-> cell]
    /\ UNCHANGED <<self, arrays, lists, writes, calls>>

\* latlon_to_grid(*grid_to_latlon(x, y))
MapBack ==
    /\ last.op = "grid_to_latlon"
    /\ MapLatLonToGrid(result.lat, result.lon, <<last.x, last.y>>)

\* latlon_to_grid of an input coordinate
MapDirect ==
    /\ last.op = "input"
    /\ "lat" \in DOMAIN last
    /\ MapLatLonToGrid(last.lat, last.lon, << >>)

MapNext == MapGridToLatLon \/ MapBack \/ MapDirect

SpecMap == MapInit /\ [][MapNext]_vars

(***************************************************************************)
(* ReliefDataProvider next to the simulator, as src/server.py holds them.  *)
(* Here `self` has the fields of the simulator and, of the provider,       *)
(* elevation_grid, and `twin`, the elevation_grid of a second provider     *)
(* built with the same parameters (0 while there is none).  Elevations are *)
(* integers in units of 1 / ElevUnit metre, a level is 4 * ElevUnit times  *)
(* its value in metres (np.linspace over five levels divides by 4), and a  *)
(* contour point is named by its cell <<x, y>>: its coordinate is          *)
(* grid_to_latlon of the cell, and cells (dx, dy) apart are                *)
(* (dy / H * 0.06, dx / W * 0.1) degrees apart.                            *)
(***************************************************************************)
ReliefW == 10
ReliefH == 26

ReliefCells == (0..(ReliefW - 1)) \X (0..(ReliefH - 1))

\* for y in range(grid_height): for x in range(grid_width)
ScanOrder == [k \in 1..(ReliefW * ReliefH) |-> <<(k - 1) % ReliefW, (k - 1) \div ReliefW>>]

ElevUnit == 2 * 2

ElevationFloor == 25

\* The terrain before the hills are added, at the model's resolution: a stand-in
\* for base_elevation + slope + spree_valley + canal1 + canal2 + tempelhof.
\* "ridges" has two ridges of 40 m in opposite corners, a pit and a peak;
\* "terraces" has rows of 35 m and 40 m, a smaller pit and a larger peak.
Terrains == {"ridges", "terraces"}

Formula(t, x, y) ==
    IF t = "ridges"
    THEN IF (x = 1 /\ y <= 3) \/ (x = 0 /\ 1 <= y /\ y <= 3) THEN 40 * ElevUnit
         ELSE IF x = ReliefW - 1 /\ y >= ReliefH - 6 THEN 40 * ElevUnit
         ELSE IF x \in {4, 5} /\ y \in 10..12 THEN 23 * ElevUnit
         ELSE IF x = 5 /\ y = 20 THEN 45 * ElevUnit
         ELSE (65 * ElevUnit) \div 2
    ELSE IF y = 5 /\ x <= 5 THEN 35 * ElevUnit
         ELSE IF y = 15 /\ x \in 2..6 THEN 40 * ElevUnit
         ELSE IF y = 10 /\ x \in 4..6 THEN 23 * ElevUnit
         ELSE IF y = 20 /\ x \in 1..7 THEN 45 * ElevUnit
         ELSE (65 * ElevUnit) \div 2

\* the k-th value of the hills of np.random.RandomState(seed): a stand-in for
\* the smoothed 4 * (random - 0.5), in -1..1 units, fixed by the seed
Hills(seed, k) == ((((seed + 7 * k) * 31) \div 5) % 3) - 1

\* (variant) the terrain without the floor
generate_mock_elevation_unfloored(t) ==
    [c \in ReliefCells |-> Formula(t, c[1], c[2]) + Hills(42, c[2] * ReliefW + c[1])]

\* _generate_mock_elevation: np.maximum(elevation, 25.0)
generate_mock_elevation(t) ==
    [c \in ReliefCells |->
        LET elevation == Formula(t, c[1], c[2]) + Hills(42, c[2] * ReliefW + c[1])
        IN  IF elevation < ElevationFloor * ElevUnit THEN ElevationFloor * ElevUnit
            ELSE elevation]

\* (variant) a line of three points is long enough
EnoughFromThree(points) == Len(points) > 2

\* len(points) > 5
Enough(points) == Len(points) > 5

\* the cells with abs(elev - level) < 1.0, in scan order
Candidates(grid, level) ==
    SelectSeq(ScanOrder, LAMBDA c : Abs(4 * grid[c] - level) < 4 * ElevUnit)

\* the squared distance of two points in degrees, times (100 * W * H)^2
Dist(a, b) ==
    (6 * (a[2] - b[2]) * ReliefW) * (6 * (a[2] - b[2]) * ReliefW)
        + (10 * (a[1] - b[1]) * ReliefH) * (10 * (a[1] - b[1]) * ReliefH)

\* min_dist < 0.01
Close(dist) == dist < 100 * (ReliefW * ReliefH) * (ReliefW * ReliefH)

\* the index of the first of the points nearest to last_point
Nearest(remaining, last_point) ==
    CHOOSE i \in 1..Len(remaining) :
        \A j \in 1..Len(remaining) :
            /\ Dist(remaining[i], last_point) <= Dist(remaining[j], last_point)
            /\ Dist(remaining[j], last_point) = Dist(remaining[i], last_point) => i <= j

\* remaining.pop(i) done
Popped(remaining, i) == SubSeq(remaining, 1, i - 1) \o SubSeq(remaining, i + 1, Len(remaining))

\* while remaining: the line being built when the loop ends or breaks
RECURSIVE Chain(_, _)
Chain(sorted_points, remaining) ==
    IF remaining = << >> THEN sorted_points
    ELSE IF Close(Dist(remaining[Nearest(remaining, sorted_points[Len(sorted_points)])],
                       sorted_points[Len(sorted_points)]))
    THEN Chain(Append(sorted_points,
                      remaining[Nearest(remaining, sorted_points[Len(sorted_points)])]),
               Popped(remaining, Nearest(remaining, sorted_points[Len(sorted_points)])))
    ELSE IF Enough(sorted_points) THEN sorted_points
    ELSE Chain(<<remaining[1]>>, Tail(remaining))

\* what one level appends to contours
LevelContours(level, contour_points) ==
    IF Enough(contour_points) /\ Enough(Chain(<<contour_points[1]>>, Tail(contour_points)))
    THEN <<[elevation |-> level,
            points |-> Chain(<<contour_points[1]>>, Tail(contour_points))]>>
    ELSE << >>

\* np.linspace(min_elev, max_elev, 5)
linspace(min_elev, max_elev) == [i \in 1..5 |-> 4 * min_elev + (i - 1) * (max_elev - min_elev)]

\* for level in levels
RECURSIVE ContoursOf(_, _)
ContoursOf(grid, levels) ==
    IF levels = << >> THEN << >>
    ELSE LevelContours(levels[1], Candidates(grid, levels[1])) \o ContoursOf(grid, Tail(levels))

\* np.min and np.max of the grid
Lowest(grid) == -Largest({-grid[c] : c \in ReliefCells})

Highest(grid) == Largest({grid[c] : c \in ReliefCells})

\* the levels a caller passes: none, one level of 40 m, the levels 25 m and 45 m
LevelChoices ==
    {[given |-> FALSE, values |-> << >>],
     [given |-> TRUE, values |-> <<40 * 4 * ElevUnit>>],
     [given |-> TRUE, values |-> <<25 * 4 * ElevUnit, 45 * 4 * ElevUnit>>]}

\* simulator = ClimateSimulator(...), relief_provider = ReliefDataProvider(...)
ServerInit ==
    /\ \E t \in Terrains :
          /\ self = [base_temp |-> 1, base_wind_u |-> 2, base_wind_v |-> 3,
                     current_temp |-> 4, current_wind_u |-> 5, current_wind_v |-> 6,
                     interventions |-> 1, elevation_grid |-> 7, twin |-> 0, terrain |-> t]
          /\ arrays = [i \in 1..7 |->
                         IF i = 7 THEN generate_mock_elevation(t)
                         ELSE [c \in Cells |->
                                  IF i \in {1, 4} THEN BaseTempDeg * TempUnit
                                  ELSE IF i \in {2, 5} THEN <<BaseWindU, 1>>
                                  ELSE <<BaseWindV, 1>>]]
    /\ lists = (1 :> << >>)
    /\ result = [kind |-> "none"]
    /\ last = [op |-> "__init__"]
    /\ writes = << >>
    /\ calls = 0

\* a call of the provider that returns value
Answered(op, value) ==
    /\ result' = [kind |-> op, value |-> value]
    /\ last' = [op |-> op]
    /\ writes' = << >>
    /\ UNCHANGED <<self, arrays, lists, calls>>

get_contour_lines(levels) ==
    Answered("get_contour_lines",
             [levels |-> levels,
              contours |-> ContoursOf(arrays[self.elevation_grid],
                               IF levels.given THEN levels.values
                               ELSE linspace(Lowest(arrays[self.elevation_grid]),
                                             Highest(arrays[self.elevation_grid])))])

\* float(self.elevation_grid[y, x]), for a coordinate that latlon_to_grid
\* resolves to the middle cell
get_elevation_at ==
    Answered("get_elevation_at",
             arrays[self.elevation_grid][<<ReliefW \div 2, ReliefH \div 2>>])

\* [lat, lon, elevation] of every second cell of every second row
get_elevation_data ==
    Answered("get_elevation_data",
             [c \in {d \in ReliefCells : d[1] % 2 = 0 /\ d[2] % 2 = 0} |->
                 arrays[self.elevation_grid][c]])

\* [lat, lon, shade] of the same cells; the shade, computed from np.gradient of
\* the grid, is left out
get_hillshade_data ==
    Answered("get_hillshade_data", {d \in ReliefCells : d[1] % 2 = 0 /\ d[2] % 2 = 0})

get_bounds ==
    Answered("get_bounds",
             [min_elevation |-> Lowest(arrays[self.elevation_grid]),
              max_elevation |-> Highest(arrays[self.elevation_grid])])

\* ReliefDataProvider(...) once more, with the parameters of the first
ReliefDataProvider ==
    /\ self.twin = 0
    /\ self' = [self EXCEPT !.twin = Alloc(arrays)]
    /\ arrays' = arrays @@ (Alloc(arrays) :> generate_mock_elevation(self.terrain))
    /\ result' = [kind |-> "none"]
    /\ last' = [op |-> "ReliefDataProvider"]
    /\ writes' = << >>
    /\ UNCHANGED <<lists, calls>>

NextRelief ==
    \/ \E levels \in LevelChoices : get_contour_lines(levels)
    \/ get_elevation_at
    \/ get_elevation_data
    \/ get_hillshade_data
    \/ get_bounds
    \/ ReliefDataProvider
    \/ apply_intervention("ADD_BUILDING", [lat |-> base_lat, lon |-> base_lon])
    \/ GetState
    \/ reset

SpecRelief == ServerInit /\ [][NextRelief]_vars

(***************************************************************************)
(* The intervene endpoint of src/server.py in front of the simulator.  A   *)
(* request body is [fields, type, lat, lon]: the keys it has and their     *)
(* values, a coordinate value being a JSON number (k = "num", NaN and      *)
(* Infinity included) or something float() does not accept (k = "text").   *)
(* `result` is the response: a snapshot, or an error with its status.      *)
(***************************************************************************)
Num(f) == [k |-> "num", v |-> f]

Text == [k |-> "text", v |-> FZero]

Body(fields, type, lat, lon) == [fields |-> fields, type |-> type, lat |-> lat, lon |-> lon]

Requests ==
    {Body({"type", "lat", "lon"}, t, Num(base_lat), Num(base_lon)) :
        t \in {"ADD_PARK", "ADD_BUILDING", "ADD_TREE"}}
    \cup {Body(f, "ADD_PARK", Num(base_lat), Num(base_lon)) :
             f \in {{}, {"lat", "lon"}, {"type", "lon"}, {"type", "lat"}}}
    \cup {Body({"type", "lat", "lon"}, t, Text, Num(base_lon)) : t \in {"ADD_PARK", "ADD_TREE"}}
    \cup {Body({"type", "lat", "lon"}, "ADD_PARK", Num(lat), Num(base_lon)) :
             lat \in {FNaN, FInf(0), FInf(1)}}
    \cup {Body({"type", "lat", "lon"}, "ADD_PARK", Num(base_lat), lon) :
             lon \in {Text, Num(FNaN), Num(FInf(0))}}

\* float(value): the number, or the ValueError it raises
float(value) ==
    IF value.k = "num" THEN [err |-> "none", v |-> value.v] ELSE [err |-> "ValueError", v |-> FNaN]

\* latlon_to_grid of the coordinates of the requests
RequestCell ==
    Table([c \in {[lat |-> r.lat.v, lon |-> r.lon.v] : r \in Requests} |->
              latlon_to_grid(c.lat, c.lon)])

\* an error response: jsonify({'error': ...}) with its status, or the 500 of
\* an exception that leaves the handler
Refused(status) ==
    /\ result' = [kind |-> "error", status |-> status]
    /\ writes' = << >>
    /\ UNCHANGED <<self, arrays, lists, calls>>

\* try: simulator.apply_intervention(...) except Exception: 500
Tried(action_type, c, g) ==
    IF g.err # "none" THEN Refused(500)
    ELSE /\ calls' = calls + 1
         /\ self' = self
         /\ ApplyAt(action_type, c, g)

intervene(data) ==
    /\ calls < MaxCalls
    /\ last' = [op |-> "intervene", data |-> data]
    /\ IF {"type", "lat", "lon"} \ data.fields # {} THEN Refused(400)
       ELSE IF float(data.lat).err # "none" \/ float(data.lon).err # "none" THEN Refused(500)
       ELSE IF data.type \notin Types THEN Refused(400)
       ELSE Tried(data.type, [lat |-> data.lat.v, lon |-> data.lon.v],
                  RequestCell[[lat |-> data.lat.v, lon |-> data.lon.v]])

NextServer ==
    \/ \E data \in Requests : intervene(data)
    \/ GetState
    \/ reset

SpecServer == Init /\ [][NextServer]_vars

(***************************************************************************)
(* Requests served in threads.  app.run serves every request in a thread   *)
(* of its own, the handlers take no lock, and the interpreter may switch   *)
(* threads between any two statements.  One intervene request advances     *)
(* through apply_intervention a group of statements at a time, `last.line` *)
(* being the last line it has run, while state requests are answered in    *)
(* between.                                                                *)
(***************************************************************************)
\* the intervene request being served, also while another request is answered
InFlight == IF last.op \in {"get_state", "reset"} THEN last.during ELSE last

Running == InFlight.op = "apply_intervention" /\ InFlight.line < 189

\* lines 143-153: the coordinate is resolved and the record appended
start_intervention(action_type, c) ==
    /\ ~Running
    /\ calls < MaxCalls
    /\ CoordCell[c].err = "none"
    /\ calls' = calls + 1
    /\ lists' = [lists EXCEPT ![self.interventions] =
                    Append(@, [type |-> action_type, lat |-> c.lat, lon |-> c.lon,
                               x |-> CoordCell[c].x, y |-> CoordCell[c].y])]
    /\ last' = [op |-> "apply_intervention", type |-> action_type, lat |-> c.lat,
                lon |-> c.lon, x |-> CoordCell[c].x, y |-> CoordCell[c].y, line |-> 153]
    /\ writes' = << >>
    /\ UNCHANGED <<self, arrays, result>>

\* lines 155-159 (temperature), 162-187 (wind) and 189 (the snapshot returned),
\* on the arrays the fields name when the statements run
continue_intervention ==
    /\ Running
    /\ UNCHANGED <<self, lists, calls>>
    /\ IF InFlight.line = 153
       THEN LET m == TemperatureEffect([h |-> arrays, err |-> "none", w |-> writes], self,
                                       InFlight.type, InFlight.x, InFlight.y)
            IN  /\ arrays' = m.h
                /\ writes' = m.w
                /\ last' = [InFlight EXCEPT !.line = 159]
                /\ UNCHANGED result
       ELSE IF InFlight.line = 159
       THEN LET m == WindEffect([h |-> arrays, err |-> "none", w |-> writes], self,
                                InFlight.type, InFlight.x, InFlight.y)
            IN  /\ arrays' = m.h
                /\ writes' = m.w
                /\ last' = [InFlight EXCEPT !.line = 187]
                /\ UNCHANGED result
       ELSE /\ result' = get_state(self, arrays)
            /\ last' = [InFlight EXCEPT !.line = 189]
            /\ UNCHANGED <<arrays, writes>>

\* GET /api/state answered by another thread
state_request ==
    /\ result' = get_state(self, arrays)
    /\ last' = [op |-> "get_state", during |-> InFlight]
    /\ UNCHANGED <<self, arrays, lists, writes, calls>>

\* POST /api/reset answered by another thread
reset_request ==
    /\ ResetTo(NewList(Rebind(Rebind(Rebind([s |-> self, h |-> arrays],
                                            "current_temp", "base_temp"),
                                     "current_wind_u", "base_wind_u"),
                              "current_wind_v", "base_wind_v"),
                       Alloc(lists)))
    /\ last' = [op |-> "reset", during |-> InFlight]
    /\ UNCHANGED <<writes, calls>>

NextThreads ==
    \/ \E t \in {"ADD_PARK", "ADD_BUILDING"} :
          start_intervention(t, [lat |-> base_lat, lon |-> base_lon])
    \/ continue_intervention
    \/ state_request
    \/ reset_request

SpecThreads == Init /\ [][NextThreads]_vars

(***************************************************************************)
(* The wind of two cells as binary64 values.  Buildings added again and    *)
(* again at the centre, whose own wind stays the base wind, halve the wind *)
(* of every shadow cell and multiply the wind of every channel cell by 1.3 *)
(* each time; `arrays` holds the current wind [u, v] of one cell of each   *)
(* kind.  No cell is both: the shadow offsets of the base wind are (-1, 0),*)
(* (-2, -1), (-3, -1), the channel offsets (0, 1), (0, -1), (-1, 2),       *)
(* (1, -2).  The history, the temperatures and REMOVE_BUILDING, which sets *)
(* shadow cells to the base wind as reset does, are left out.              *)
(***************************************************************************)
MinExp == -1074

SubnormalCut(x, q, up) ==
    IF q = << >> /\ ~up THEN FZero
    ELSE [k |-> "fin", s |-> x.s, m |-> IF up THEN BigAdd(q, <<1>>) ELSE q, e |-> MinExp]

\* a result below 2^-1022 has the bits under 2^-1074 rounded away (to
\* nearest, ties to even) and keeps the exponent -1074; exact when the
\* product it rounds was exact, as every product with 0.5 is
Subnormal(x) ==
    IF x.k # "fin" \/ x.m = << >> \/ x.e >= MinExp THEN x
    ELSE SubnormalCut(x, BigShr(x.m, MinExp - x.e),
                      RoundsUp(x.m, MinExp - x.e, BigShr(x.m, MinExp - x.e), FALSE))

WindFactor ==
    [shadow  |-> FLit(ShadowFactor[1], ShadowFactor[2]),
     channel |-> FLit(ChannelFactor[1], ChannelFactor[2])]

\* (variant) only the east component is scaled
ScaledEastOnly(w, factor) == [u |-> Subnormal(FMul(w.u, factor)), v |-> w.v]

\* current_wind_u[nx, ny] *= factor; current_wind_v[nx, ny] *= factor
Scaled(w, factor) == [u |-> Subnormal(FMul(w.u, factor)), v |-> Subnormal(FMul(w.v, factor))]

WindBase == [u |-> FOfInt(BaseWindU), v |-> FOfInt(BaseWindV)]

WindInit ==
    /\ arrays = [shadow |-> WindBase, channel |-> WindBase]
    /\ self = << >>
    /\ lists = << >>
    /\ writes = << >>
    /\ calls = 0
    /\ result = [kind |-> "none"]
    /\ last = [op |-> "__init__"]

\* apply_intervention("ADD_BUILDING", base_lat, base_lon)
BuildAtCentre ==
    /\ arrays' = [shadow  |-> Scaled(arrays.shadow, WindFactor.shadow),
                  channel |-> Scaled(arrays.channel, WindFactor.channel)]
    /\ last' = [op |-> "apply_intervention", type |-> "ADD_BUILDING"]
    /\ UNCHANGED <<self, lists, result, writes, calls>>

\* reset(): current_wind_u and current_wind_v are copies of the base arrays
ResetWind ==
    /\ arrays' = [shadow |-> WindBase, channel |-> WindBase]
    /\ last' = [op |-> "reset"]
    /\ UNCHANGED <<self, lists, result, writes, calls>>

WindNext == BuildAtCentre \/ ResetWind

SpecWind == WindInit /\ [][WindNext]_vars

(***************************************************************************)
(* One cell in binary64.  `arrays` holds the current temperature and wind  *)
(* of a cell P, `lists` the interventions since the last reset, each at    *)
(* one of three sites: P itself ("here"), the cell east of it, P + (1, 0), *)
(* of which P is the first shadow cell, and the cell P - (1, 1)            *)
(* ("diagonal"), of which P is neither a shadow nor a channel cell.  Within*)
(* MaxHeatCalls calls the wind at the sites keeps the base direction and a *)
(* magnitude of 0.1 or more, so the offsets are those of the base wind.    *)
(***************************************************************************)
MaxHeatCalls == 2

\* distance_sq = dx**2 + dy**2 from the site to P
SiteDistanceSq == [here |-> 0, east |-> 1, diagonal |-> 2]

Sites == DOMAIN SiteDistanceSq

\* impact at the site itself, impact * damping * 0.5 at a neighbour, with
\* damping = 1 / (1 + distance_sq), every operation rounded
Contribution(action_type, site) ==
    IF SiteDistanceSq[site] = 0 THEN FLit(TEMP_COEFFICIENTS[action_type], TempUnit)
    ELSE FMul(FMul(FLit(TEMP_COEFFICIENTS[action_type], TempUnit),
                   FDiv(FOfInt(1), FOfInt(1 + SiteDistanceSq[site]))),
              FLit(1, 2))

Contributions ==
    Table([k \in (DOMAIN TEMP_COEFFICIENTS) \X Sites |-> Contribution(k[1], k[2])])

\* (variant) the temperature set from the base value instead of raised
FeltFromBase(cell, action_type, site) ==
    [cell EXCEPT !.temp = IF action_type \in DOMAIN TEMP_COEFFICIENTS
                          THEN FAdd(FOfInt(BaseTempDeg), Contributions[<<action_type, site>>])
                          ELSE @]

\* what apply_intervention(action_type, site) does to P: current_temp += the
\* contribution; the wind halved by a building east of P and set to the
\* base wind when that building is removed
Felt(cell, action_type, site) ==
    [temp |-> IF action_type \in DOMAIN TEMP_COEFFICIENTS
              THEN FAdd(cell.temp, Contributions[<<action_type, site>>])
              ELSE cell.temp,
     wind |-> IF site = "east" /\ action_type = "ADD_BUILDING"
              THEN Scaled(cell.wind, WindFactor.shadow)
              ELSE IF site = "east" /\ action_type = "REMOVE_BUILDING" THEN WindBase
              ELSE cell.wind]

CellBase == [temp |-> FOfInt(BaseTempDeg), wind |-> WindBase]

HeatInit ==
    /\ arrays = CellBase
    /\ lists = << >>
    /\ self = << >>
    /\ writes = << >>
    /\ calls = 0
    /\ result = [kind |-> "none"]
    /\ last = [op |-> "__init__"]

intervene_near(action_type, site) ==
    /\ calls < MaxHeatCalls
    /\ calls' = calls + 1
    /\ lists' = Append(lists, [type |-> action_type, site |-> site])
    /\ arrays' = Felt(arrays, action_type, site)
    /\ last' = [op |-> "apply_intervention", type |-> action_type, site |-> site]
    /\ UNCHANGED <<self, result, writes>>

\* reset(): the current arrays are copies of the base arrays, the list is new
ResetCell ==
    /\ arrays' = CellBase
    /\ lists' = << >>
    /\ calls' = 0
    /\ last' = [op |-> "reset"]
    /\ UNCHANGED <<self, result, writes>>

HeatNext ==
    \/ \E t \in {"ADD_PARK", "ADD_ASPHALT", "ADD_BUILDING", "REMOVE_BUILDING"}, site \in Sites :
          intervene_near(t, site)
    \/ ResetCell

SpecHeat == HeatInit /\ [][HeatNext]_vars

(***************************************************************************)
(* The properties.                                                         *)
(***************************************************************************)
History == lists[self.interventions]

Temp == arrays[self.current_temp]

\* the call that led to this state was apply_intervention and it returned
Applied == last.op = "apply_intervention" /\ result.kind = "snapshot"

\* the cell the last apply_intervention resolved its coordinate to
LastCell == CoordCell[[lat |-> last.lat, lon |-> last.lon]]

CentreCell == <<grid_width \div 2, grid_height \div 2>>

\* C1: in every reachable state the base temperature and base wind (u, v)
\* arrays hold their construction values in every cell, and no current array
\* is the same object as a base array, so that a store into a current array
\* cannot reach a base array (also after reset)
C1_BaseArraysNeverChange ==
    /\ arrays[self.base_temp] = [c \in Cells |-> BaseTempDeg * TempUnit]
    /\ arrays[self.base_wind_u] = [c \in Cells |-> <<BaseWindU, 1>>]
    /\ arrays[self.base_wind_v] = [c \in Cells |-> <<BaseWindV, 1>>]
    /\ {self.current_temp, self.current_wind_u, self.current_wind_v}
           \cap {self.base_temp, self.base_wind_u, self.base_wind_v} = {}

\* C1 witness: an intervention applied after a reset (the current arrays are
\* not the objects __init__ made) has changed current temperature and wind
C1_Witness ==
    /\ Applied
    /\ self.interventions # 1
    /\ last.type = "ADD_BUILDING"
    /\ arrays[self.current_temp] # arrays[self.base_temp]
    /\ arrays[self.current_wind_u] # arrays[self.base_wind_u]
    /\ arrays[self.current_wind_v] # arrays[self.base_wind_v]

\* C2: the state reset() leaves has every current cell (temperature, wind u,
\* wind v) equal to the base cell and an empty history, the snapshot reset()
\* returns has current_avg_temp = base_temp and no interventions, and so has
\* the snapshot of a get_state() that follows the reset
C2_ResetRestores ==
    [][/\ last'.op = "reset" =>
            /\ \A c \in Cells :
                  /\ arrays'[self'.current_temp][c] = arrays'[self'.base_temp][c]
                  /\ arrays'[self'.current_wind_u][c] = arrays'[self'.base_wind_u][c]
                  /\ arrays'[self'.current_wind_v][c] = arrays'[self'.base_wind_v][c]
            /\ lists'[self'.interventions] = << >>
            /\ result'.kind = "snapshot"
            /\ result'.current_avg_temp = result'.base_temp
            /\ lists'[result'.interventions] = << >>
       /\ (last.op = "reset" /\ last'.op = "get_state") =>
            /\ result'.kind = "snapshot"
            /\ result'.current_avg_temp = result'.base_temp
            /\ lists'[result'.interventions] = << >>]_vars

\* C2 witness: reset() has run in a state with records in the history and
\* with temperature and both wind components changed
C2_Witness ==
    /\ last.op = "reset"
    /\ last.records >= 2
    /\ last.changed = {"temp", "wind_u", "wind_v"}
    /\ History = << >>

\* C3 (as claimed): every apply_intervention(type, lat, lon) appends exactly
\* one record [type, lat, lon, x, y] with (x, y) = latlon_to_grid(lat, lon) and
\* leaves the earlier records in place; get_state leaves the history as it
\* is; a step that shortens the history is a reset and empties it
C3_AppendOnly ==
    [][/\ last'.op = "apply_intervention" =>
            lists'[self'.interventions] =
                Append(History,
                       [type |-> last'.type, lat |-> last'.lat, lon |-> last'.lon,
                        x |-> CoordCell[[lat |-> last'.lat, lon |-> last'.lon]].x,
                        y |-> CoordCell[[lat |-> last'.lat, lon |-> last'.lon]].y])
       /\ last'.op = "get_state" => lists'[self'.interventions] = History
       /\ Len(lists'[self'.interventions]) < Len(History) =>
            last'.op = "reset" /\ lists'[self'.interventions] = << >>]_vars

\* the change of the temperature of cell c in the last step, in 1/TempUnit degree
TempChange(c) == arrays'[self'.current_temp][c] - Temp[c]

\* c lies in the 5x5 neighbourhood of g
Near(c, g) == Abs(c[1] - g.x) <= 2 /\ Abs(c[2] - g.y) <= 2

\* the step is an apply_intervention that returned
AppliedStep == last'.op = "apply_intervention" /\ result'.kind = "snapshot"

\* the cell the apply_intervention of the step resolved its coordinate to
StepCell == CoordCell[[lat |-> last'.lat, lon |-> last'.lon]]

\* C4: an apply_intervention of a type with temperature delta d that resolves
\* to cell (x, y) changes current_temp[x, y] by exactly d and every in-grid
\* cell (x + dx, y + dy), dx, dy in -2..2, (dx, dy) # (0, 0), by
\* d * 0.5 / (1 + dx^2 + dy^2), on top of the value the cell had.  ADD_PARK at
\* (base_lat, base_lon) on a fresh grid with base 30.0 resolves to the centre
\* cell ((25, 25) for the default 50 x 50 grid), and leaves 28.0 there and
\* 29.5 one cell to the right of it.
C4_TemperatureDeltas ==
    [][/\ (AppliedStep /\ last'.type \in DOMAIN TEMP_COEFFICIENTS) =>
            \A c \in Cells :
                /\ c = <<StepCell.x, StepCell.y>> =>
                      TempChange(c) = TEMP_COEFFICIENTS[last'.type]
                /\ (Near(c, StepCell) /\ c # <<StepCell.x, StepCell.y>>) =>
                      TempChange(c) * 2
                          * (1 + (c[1] - StepCell.x) * (c[1] - StepCell.x)
                               + (c[2] - StepCell.y) * (c[2] - StepCell.y))
                      = TEMP_COEFFICIENTS[last'.type]
       /\ (/\ AppliedStep
           /\ last'.type = "ADD_PARK"
           /\ last'.lat = base_lat /\ last'.lon = base_lon
           /\ Temp = arrays[self.base_temp]) =>
            /\ DefaultCentre = [err |-> "none", x |-> 25, y |-> 25]
            /\ <<StepCell.x, StepCell.y>> = CentreCell
            /\ arrays'[self'.current_temp][CentreCell] = 28 * TempUnit
            /\ arrays'[self'.current_temp][<<CentreCell[1] + 1, CentreCell[2]>>]
                   = (59 * TempUnit) \div 2]_vars

\* C4 witness: ADD_PARK and then ADD_ASPHALT at the centre: the centre holds
\* 30 - 2 + 2.5 and its right neighbour 30 - 0.5 + 0.625
C4_Witness ==
    /\ Applied
    /\ Len(History) = 2
    /\ History[1].type = "ADD_PARK" /\ History[2].type = "ADD_ASPHALT"
    /\ \A i \in 1..2 : <<History[i].x, History[i].y>> = CentreCell
    /\ Temp[CentreCell] = (61 * TempUnit) \div 2
    /\ Temp[<<CentreCell[1] + 1, CentreCell[2]>>] = (241 * TempUnit) \div 8

\* C5: ADD_WATER resolving to cell (x, y), from any reachable state, lowers
\* current_temp[x, y] by exactly 3.0, raises no cell, lowers every cell of the
\* 5x5 neighbourhood strictly and leaves every other cell as it was
C5_WaterOnlyCools ==
    [][(AppliedStep /\ last'.type = "ADD_WATER") =>
          /\ TempChange(<<StepCell.x, StepCell.y>>) = -3 * TempUnit
          /\ \A c \in Cells :
                /\ TempChange(c) <= 0
                /\ Near(c, StepCell) => TempChange(c) < 0
                /\ ~Near(c, StepCell) => TempChange(c) = 0]_vars

\* C5 witness: ADD_WATER applied at a cell that ADD_ASPHALT had warmed before:
\* the cell holds 30 + 2.5 - 3.0
C5_Witness ==
    /\ Applied
    /\ last.type = "ADD_WATER"
    /\ Len(History) = 2
    /\ History[1].type = "ADD_ASPHALT"
    /\ <<History[1].x, History[1].y>> = <<LastCell.x, LastCell.y>>
    /\ Temp[<<LastCell.x, LastCell.y>>] = (59 * TempUnit) \div 2

\* every record of the history has type t and the cell of the first record
SameTypeAndCell(t) ==
    /\ History # << >>
    /\ \A i \in DOMAIN History :
          /\ History[i].type = t
          /\ History[i].x = History[1].x
          /\ History[i].y = History[1].y

\* C6: n applications of one temperature-changing type at one cell (and no
\* other since construction or the last reset) leave the centre cell at its
\* base value plus n times the type's delta; ADD_BUILDING twice: plus 3.0
C6_Cumulative ==
    /\ \A t \in DOMAIN TEMP_COEFFICIENTS :
          SameTypeAndCell(t) =>
              Temp[<<History[1].x, History[1].y>>]
                  = arrays[self.base_temp][<<History[1].x, History[1].y>>]
                      + Len(History) * TEMP_COEFFICIENTS[t]
    /\ (SameTypeAndCell("ADD_BUILDING") /\ Len(History) = 2) =>
          Temp[<<History[1].x, History[1].y>>]
              = arrays[self.base_temp][<<History[1].x, History[1].y>>] + 3 * TempUnit

\* C6 witness: ADD_BUILDING applied twice at one coordinate: 33.0 at the cell
C6_Witness ==
    /\ Applied
    /\ SameTypeAndCell("ADD_BUILDING")
    /\ Len(History) = 2
    /\ History[1].lat = History[2].lat /\ History[1].lon = History[2].lon
    /\ Temp[<<History[1].x, History[1].y>>] = (BaseTempDeg + 3) * TempUnit

\* C7: every array store of an apply_intervention has both indices, as
\* written, inside the grid (so none counts from the opposite edge) and within
\* three cells of the resolved cell, and an apply_intervention whose
\* coordinate resolved to a cell returns a snapshot (no error)
C7_WritesInGrid ==
    /\ \A i \in DOMAIN writes :
          /\ 0 <= writes[i].x /\ writes[i].x <= grid_width - 1
          /\ 0 <= writes[i].y /\ writes[i].y <= grid_height - 1
          /\ Abs(writes[i].x - LastCell.x) <= 3
          /\ Abs(writes[i].y - LastCell.y) <= 3
    /\ (last.op = "apply_intervention" /\ LastCell.err = "none") =>
          result.kind = "snapshot"

\* C7 witness: ADD_BUILDING at the corner cell (0, 0), whose shadow cells and
\* most neighbours lie outside the grid: it returned, having stored only the
\* in-grid part of the 5x5 neighbourhood and of the channel cells
C7_Witness ==
    /\ Applied
    /\ last.type = "ADD_BUILDING"
    /\ <<LastCell.x, LastCell.y>> = <<0, 0>>
    /\ \E i \in DOMAIN writes : writes[i].ref = self.current_wind_u
    /\ Len(writes) < 25

\* C10: a get_state step leaves the fields of the simulator, every array
\* (current and base) and the history as they were, and a get_state that
\* directly follows a get_state returns an equal snapshot
C10_GetStatePure ==
    [][last'.op = "get_state" =>
          /\ self' = self
          /\ arrays' = arrays
          /\ lists' = lists
          /\ last.op = "get_state" => result' = result]_vars

\* C10 witness: get_state has returned a snapshot of a state with a changed
\* temperature field, changed wind and a record in the history
C10_Witness ==
    /\ last.op = "get_state"
    /\ result.kind = "snapshot"
    /\ History # << >>
    /\ result.current_avg_temp # result.base_temp
    /\ arrays[self.current_wind_u] # arrays[self.base_wind_u]

\* a < b, for floats that are not NaN
Negative(d) == d.s = 1 /\ (d.k = "inf" \/ (d.k = "fin" /\ d.m # << >>))

FLess(a, b) == Negative(FSub(a, b))

\* C8 (as claimed): for both mappers and every cell (x, y) of the grid,
\* latlon_to_grid(grid_to_latlon(x, y)) returns (x, y)
C8_RoundTrip ==
    (last.op = "latlon_to_grid" /\ last.cell # << >>) =>
        result = [kind |-> "cell", x |-> last.cell[1], y |-> last.cell[2]]

\* the index v is the one C9 claims for coordinate c on an axis of size n whose
\* area reaches from lo to hi: inside the grid, and the index of the nearest
\* edge for a coordinate outside the area
EdgeIndex(v, n, c, lo, hi) ==
    /\ 0 <= v /\ v <= n - 1
    /\ FLess(c, lo) => v = 0
    /\ FLess(hi, c) => v = n - 1

\* C9 (as claimed): for both mappers, latlon_to_grid of every finite
\* (lat, lon) returns a cell of the grid, without an error, and on an axis
\* where the coordinate lies outside the area that cell is on the nearest edge
C9_AlwaysClamped ==
    last.op = "latlon_to_grid" =>
        /\ result.kind = "cell"
        /\ EdgeIndex(result.x, self.grid_width, last.lon,
                     MapToGeo(self.mapper, "x", 0), MapToGeo(self.mapper, "x", self.grid_width))
        /\ EdgeIndex(result.y, self.grid_height, last.lat,
                     MapToGeo(self.mapper, "y", 0), MapToGeo(self.mapper, "y", self.grid_height))

\* x * H + y
FlatIndex(c) == c[1] * grid_height + c[2]

\* C11: in every snapshot hotspot.temp is the maximum of current temperature
\* over all cells, and (hotspot.lat, hotspot.lon) is grid_to_latlon (GeoOf) of the cell
\* with the lowest flattened index x * H + y among the cells holding that
\* maximum; on a grid whose current temperature equals the base temperature
\* that cell is (0, 0)
C11_Hotspot ==
    result.kind = "snapshot" =>
        /\ \E c \in Cells :
              /\ result.hotspot.temp = Temp[c]
              /\ \A d \in Cells :
                    /\ Temp[d] <= Temp[c]
                    /\ Temp[d] = Temp[c] => FlatIndex(c) <= FlatIndex(d)
              /\ <<result.hotspot.lat, result.hotspot.lon>> = GeoOf[c]
        /\ Temp = arrays[self.base_temp] =>
              /\ <<result.hotspot.lat, result.hotspot.lon>> = GeoOf[<<0, 0>>]
              /\ result.hotspot.temp = BaseTempDeg * TempUnit

\* C11 witness: after ADD_PARK at the corner (0, 0) the maximum 30.0 is held by
\* many cells, none of them sampled before (0, 3) in flattened order, and the
\* hotspot is (0, 3)
C11_Witness ==
    /\ Applied
    /\ last.type = "ADD_PARK"
    /\ <<LastCell.x, LastCell.y>> = <<0, 0>>
    /\ Temp[<<0, 0>>] < BaseTempDeg * TempUnit
    /\ result.hotspot.temp = BaseTempDeg * TempUnit
    /\ <<result.hotspot.lat, result.hotspot.lon>> = GeoOf[<<0, 3>>]

WindU == arrays[self.current_wind_u]
WindV == arrays[self.current_wind_v]

\* a * sqrt(q) <= b, for integers a, b and q > 0
LeRoot(a, q, b) ==
    IF a <= 0 THEN b >= 0 \/ a * a * q >= b * b
    ELSE b >= 0 /\ a * a * q <= b * b

\* r is an integer nearest to p / sqrt(q)
IsRound(r, p, q) == LeRoot(2 * r - 1, q, 2 * p) /\ LeRoot(-(2 * r + 1), q, -(2 * p))

\* c = g + round(dist * (px, py) / |(px, py)|) for a dist of 1..n
OffsetCell(c, g, px, py, n) ==
    \E dist \in 1..n :
        /\ IsRound(c[1] - g.x, px * dist, px * px + py * py)
        /\ IsRound(c[2] - g.y, py * dist, px * px + py * py)

\* c is one of the shadow cells of a building at g in a wind along d
ShadowCell(c, g, d) == OffsetCell(c, g, -d[1], -d[2], 3)

\* c is one of the channel cells of a building at g in a wind along d
ChannelCell(c, g, d) == OffsetCell(c, g, -d[2], d[1], 2) \/ OffsetCell(c, g, d[2], -d[1], 2)

\* what ADD_BUILDING at g, in a wind along d, multiplies the wind of cell c by
BuildingFactor(c, g, d) ==
    RatMul(IF ShadowCell(c, g, d) THEN <<1, 2>> ELSE <<1, 1>>,
           IF ChannelCell(c, g, d) THEN <<13, 10>> ELSE <<1, 1>>)

\* the wind of every cell after the step is its wind before, times factor[c]
WindScaledBy(factor) ==
    \A c \in Cells :
        /\ arrays'[self'.current_wind_u][c] = RatMul(WindU[c], factor[c])
        /\ arrays'[self'.current_wind_v][c] = RatMul(WindV[c], factor[c])

\* the current wind at the cell of the step, before the step
StepWind == <<WindU[<<StepCell.x, StepCell.y>>], WindV[<<StepCell.x, StepCell.y>>]>>

\* C14: ADD_BUILDING at cell (x, y) reads the current wind (u, v) there and,
\* when its magnitude is at least 0.1, multiplies both wind components by 0.5
\* at the in-grid shadow cells (x, y) + round(d * (-u, -v) / |(u, v)|),
\* d = 1, 2, 3, and by 1.3 at the in-grid channel cells
\* (x, y) + round(d * (-v, u) / |(u, v)|) and (x, y) + round(d * (v, -u) / |(u, v)|),
\* d = 1, 2; the wind of every other cell is unchanged; and ADD_PARK,
\* ADD_WATER, REMOVE_ASPHALT and ADD_ASPHALT never change any wind cell
C14_BuildingWind ==
    [][/\ (AppliedStep /\ last'.type = "ADD_BUILDING"
               /\ ~SlowWind(StepWind[1], StepWind[2])) =>
            WindScaledBy([c \in Cells |->
                BuildingFactor(c, StepCell, Direction(StepWind[1], StepWind[2]))])
       /\ (AppliedStep /\ last'.type \in {"ADD_PARK", "ADD_WATER",
                                           "REMOVE_ASPHALT", "ADD_ASPHALT"}) =>
            WindScaledBy([c \in Cells |-> <<1, 1>>])]_vars

\* C14 witness: after two ADD_BUILDING at the centre the cell behind it has a
\* quarter of the base wind, the cell to its left 1.69 times the base wind and
\* the corner the base wind
C14_Witness ==
    /\ Applied
    /\ Len(History) = 2
    /\ \A i \in 1..2 :
           History[i].type = "ADD_BUILDING" /\ <<History[i].x, History[i].y>> = CentreCell
    /\ WindU[<<CentreCell[1] - 1, CentreCell[2]>>] = <<1, 2>>
    /\ WindV[<<CentreCell[1] - 1, CentreCell[2]>>] = <<1, 4>>
    /\ WindU[<<CentreCell[1], CentreCell[2] + 1>>] = <<169, 50>>
    /\ WindV[<<CentreCell[1], CentreCell[2] + 1>>] = <<169, 100>>
    /\ WindU[<<0, 0>>] = <<BaseWindU, 1>>

\* the base wind at the cell of the step
StepBaseWind ==
    <<arrays[self.base_wind_u][<<StepCell.x, StepCell.y>>],
      arrays[self.base_wind_v][<<StepCell.x, StepCell.y>>]>>

\* C15: REMOVE_BUILDING at cell (x, y) takes the shadow offsets of the base
\* wind at (x, y), sets the current wind of the in-grid shadow cells to the
\* base wind and changes no temperature cell and no other wind cell; so
\* ADD_BUILDING and then REMOVE_BUILDING at one coordinate of a fresh grid
\* leave the shadow cells at the base wind, the channel cells at 1.3 times the
\* base wind and the centre 1.5 degrees above the base temperature
C15_RemoveBuilding ==
    [][(AppliedStep /\ last'.type = "REMOVE_BUILDING") =>
          /\ \A c \in Cells :
                /\ TempChange(c) = 0
                /\ arrays'[self'.current_wind_u][c] =
                      IF ShadowCell(c, StepCell, Direction(StepBaseWind[1], StepBaseWind[2]))
                      THEN arrays[self.base_wind_u][c] ELSE WindU[c]
                /\ arrays'[self'.current_wind_v][c] =
                      IF ShadowCell(c, StepCell, Direction(StepBaseWind[1], StepBaseWind[2]))
                      THEN arrays[self.base_wind_v][c] ELSE WindV[c]
          /\ (/\ Len(History) = 1
              /\ History[1].type = "ADD_BUILDING"
              /\ <<History[1].x, History[1].y>> = <<StepCell.x, StepCell.y>>) =>
                \A c \in Cells :
                    /\ arrays'[self'.current_wind_u][c] =
                          IF ChannelCell(c, StepCell, <<BaseWindU, BaseWindV>>)
                          THEN Rat(13 * BaseWindU, 10) ELSE <<BaseWindU, 1>>
                    /\ arrays'[self'.current_wind_v][c] =
                          IF ChannelCell(c, StepCell, <<BaseWindU, BaseWindV>>)
                          THEN Rat(13 * BaseWindV, 10) ELSE <<BaseWindV, 1>>
                    /\ c = <<StepCell.x, StepCell.y>> =>
                          arrays'[self'.current_temp][c]
                              = BaseTempDeg * TempUnit + (3 * TempUnit) \div 2]_vars

\* C15 witness: ADD_BUILDING and then REMOVE_BUILDING at the centre: the cell
\* behind the centre has the base wind again, the cell to its left has not
C15_Witness ==
    /\ Applied
    /\ Len(History) = 2
    /\ History[1].type = "ADD_BUILDING" /\ History[2].type = "REMOVE_BUILDING"
    /\ \A i \in 1..2 : <<History[i].x, History[i].y>> = CentreCell
    /\ WindU[<<CentreCell[1] - 1, CentreCell[2]>>] = <<BaseWindU, 1>>
    /\ WindU[<<CentreCell[1], CentreCell[2] + 1>>] = <<13, 5>>
    /\ Temp[CentreCell] = (63 * TempUnit) \div 2

\* the cell the ADD_BUILDING of the step resolved its coordinate to
BuildCell == BuildingCell[[lat |-> last'.lat, lon |-> last'.lon]]

\* the current wind at that cell before the step
BuildWind == <<WindU[<<BuildCell.x, BuildCell.y>>], WindV[<<BuildCell.x, BuildCell.y>>]>>

\* C16: when the current wind at the resolved cell has magnitude below 0.1
\* (as after five halvings of the base wind (2, 1), not after four),
\* ADD_BUILDING there changes no wind cell, raises no error, raises the
\* temperature of the cell by 1.5 and appends its history record
C16_SlowWindNoOp ==
    [][/\ \A c \in Cells :
            /\ (WindU[c] = Rat(BaseWindU, 32) /\ WindV[c] = Rat(BaseWindV, 32))
                   => SlowWind(WindU[c], WindV[c])
            /\ (WindU[c] = Rat(BaseWindU, 16) /\ WindV[c] = Rat(BaseWindV, 16))
                   => ~SlowWind(WindU[c], WindV[c])
       /\ (calls' = calls + 1 /\ SlowWind(BuildWind[1], BuildWind[2])) =>
            /\ result'.kind = "snapshot"
            /\ arrays'[self'.current_wind_u] = WindU
            /\ arrays'[self'.current_wind_v] = WindV
            /\ TempChange(<<BuildCell.x, BuildCell.y>>) = TEMP_COEFFICIENTS["ADD_BUILDING"]
            /\ Len(lists'[self'.interventions]) = Len(History) + 1
            /\ SubSeq(lists'[self'.interventions], 1, Len(History)) = History
            /\ lists'[self'.interventions][Len(History) + 1].type = "ADD_BUILDING"
            /\ lists'[self'.interventions][Len(History) + 1].x = BuildCell.x
            /\ lists'[self'.interventions][Len(History) + 1].y = BuildCell.y]_vars

\* C16 witness: five buildings at the centre and then one in their shadow,
\* where the wind is (2, 1) / 32: that cell is 1.5 degrees warmer than the
\* five buildings east of it left it, and the wind behind it is untouched
C16_Witness ==
    /\ Applied
    /\ Len(History) = 6
    /\ \A i \in 1..5 : <<History[i].x, History[i].y>> = CentreCell
    /\ <<History[6].x, History[6].y>> = <<CentreCell[1] - 1, CentreCell[2]>>
    /\ WindU[<<CentreCell[1] - 1, CentreCell[2]>>] = Rat(BaseWindU, 32)
    /\ WindU[<<CentreCell[1] - 2, CentreCell[2]>>] = <<BaseWindU, 1>>
    /\ Temp[<<CentreCell[1] - 1, CentreCell[2]>>]
           = BaseTempDeg * TempUnit + 5 * ((3 * TempUnit) \div 8) + (3 * TempUnit) \div 2

\* the elevation grid of the server's provider
Elevation == arrays[self.elevation_grid]

\* the groups of the last get_contour_lines
Contours == result.value.contours

\* C12: get_contour_lines() called with no levels returns at most 5 groups,
\* the elevation of each group lies within [min_elevation, max_elevation] of
\* the elevation grid, and each group has more than 5 points
C12_DefaultContours ==
    (result.kind = "get_contour_lines" /\ ~result.value.levels.given) =>
        /\ Len(Contours) <= 5
        /\ \A i \in 1..Len(Contours) :
              /\ \E c \in ReliefCells : 4 * Elevation[c] <= Contours[i].elevation
              /\ \E c \in ReliefCells : Contours[i].elevation <= 4 * Elevation[c]
              /\ Len(Contours[i].points) > 5

\* C12 witness: on the terraces the five levels give two groups, the first of
\* six points; the lowest level, with the three cells of the pit, gives none
C12_Witness ==
    /\ result.kind = "get_contour_lines"
    /\ ~result.value.levels.given
    /\ self.terrain = "terraces"
    /\ Len(Contours) = 2
    /\ Len(Contours[1].points) = 6
    /\ \A c \in ReliefCells : 4 * Elevation[c] + 4 * ElevUnit < Contours[1].elevation
                                  \/ Elevation[c] > ElevationFloor * ElevUnit

RECURSIVE AllLines(_, _, _)
AllLines(line, remaining, done) ==
    IF remaining = << >> THEN Append(done, line)
    ELSE IF Close(Dist(remaining[Nearest(remaining, line[Len(line)])], line[Len(line)]))
    THEN AllLines(Append(line, remaining[Nearest(remaining, line[Len(line)])]),
                  Popped(remaining, Nearest(remaining, line[Len(line)])), done)
    ELSE AllLines(<<remaining[1]>>, Tail(remaining), Append(done, line))

\* the lines of more than 5 points among them
LongLines(contour_points) ==
    IF contour_points = << >> THEN << >>
    ELSE SelectSeq(AllLines(<<contour_points[1]>>, Tail(contour_points), << >>), Enough)

\* the levels the last get_contour_lines went through
UsedLevels ==
    IF result.value.levels.given THEN result.value.levels.values
    ELSE linspace(Lowest(Elevation), Highest(Elevation))

BadRequest(data) ==
    \/ {"type", "lat", "lon"} \ data.fields # {}
    \/ data.type \notin {"ADD_PARK", "ADD_WATER", "REMOVE_ASPHALT", "ADD_ASPHALT",
                          "ADD_BUILDING", "REMOVE_BUILDING"}
    \/ data.lat.k # "num" \/ data.lon.k # "num"
    \/ data.lat.v.k # "fin" \/ data.lon.v.k # "fin"

\* C18: an intervene request that is rejected or fails (a missing field, a
\* type outside the six, a non-numeric or non-finite lat or lon) leaves the
\* simulator unchanged -- no cell of any array, no history record -- and is
\* answered with an error instead of a snapshot
C18_RejectedUnchanged ==
    [][(last'.op = "intervene" /\ BadRequest(last'.data)) =>
          /\ self' = self
          /\ arrays' = arrays
          /\ lists' = lists
          /\ result'.kind = "error"]_vars

\* C18 witness: a request with lat NaN, answered 500, after an intervention
\* that was applied
C18_Witness ==
    /\ last.op = "intervene"
    /\ last.data.lat = Num(FNaN)
    /\ result = [kind |-> "error", status |-> 500]
    /\ Len(History) = 1
    /\ Temp # arrays[self.base_temp]

\* the heap a serial execution of the recorded interventions leaves: the
\* current arrays as reset makes them, then every record's statements in turn
Replay(m, s, records) ==
    LET after[k \in 0 .. Len(records)] ==
            IF k = 0 THEN m
            ELSE CHOOSE next \in {Effects(done, s, records[k].type, records[k]) :
                                     done \in {after[k - 1]}} : TRUE
    IN  after[Len(records)]

Serial ==
    Replay([h   |-> [arrays EXCEPT ![self.current_temp] = arrays[self.base_temp],
                                   ![self.current_wind_u] = arrays[self.base_wind_u],
                                   ![self.current_wind_v] = arrays[self.base_wind_v]],
            err |-> "none", w |-> << >>], self, History).h

\* the step that led to this state answered a request with a snapshot
JustAnswered ==
    \/ last.op \in {"get_state", "reset"}
    \/ last.op = "apply_intervention" /\ last.line = 189 /\ result.kind = "snapshot"

\* C19: with apply_intervention, reset and get_state requests served concurrently
\* against the one simulator, every snapshot returned is the snapshot of a
\* serial execution of the interventions its history shows (no record without
\* its cell updates, none with only a part of them), and once no request is
\* in flight the current arrays are those of that serial execution
C19_Linearizable ==
    /\ JustAnswered => result = get_state(self, Serial)
    /\ ~Running => \A f \in {"current_temp", "current_wind_u", "current_wind_v"} :
                      arrays[self[f]] = Serial[self[f]]

\* x > 0
Positive(x) == x.s = 0 /\ (x.k = "inf" \/ (x.k = "fin" /\ x.m # << >>))

\* u == 2 * v and both > 0, as the floats compare
Parallel(w) ==
    /\ w.u = Subnormal(FMul(FOfInt(2), w.v))
    /\ Positive(w.u)
    /\ Positive(w.v)

Hundredth == FLit(1, 10 * 10)

\* the magnitude is at least 0.1, decided on the squares: differs from
\* sqrt(u**2 + v**2) < 0.1 only within a rounding of 0.1, where no wind
\* 2^-n * (2, 1) or 1.3^n * (2, 1) lies
AtLeastTenth(w) == ~FLess(FAdd(FMul(w.u, w.u), FMul(w.v, w.v)), Hundredth)

InOrder(records, p) ==
    LET after[k \in 0 .. Len(records)] ==
            IF k = 0 THEN CellBase
            ELSE CHOOSE next \in {Felt(done, records[p[k]].type, records[p[k]].site) :
                                     done \in {after[k - 1]}} : TRUE
    IN  after[Len(records)]

Orders(records) == Permutations(1 .. Len(records))

\* 2^-47: a unit in the last place of a float in [32, 64)
LastPlace == FMul(FLit(1, 2 ^ 24), FLit(1, 2 ^ 23))

\* |a - b| <= n * 2^-47
Within(a, b, n) ==
    ~FLess(FMul(FOfInt(n), LastPlace), IF FLess(a, b) THEN FSub(b, a) ELSE FSub(a, b))

BuiltAndCleared ==
    lists = <<[type |-> "ADD_BUILDING", site |-> "east"],
              [type |-> "REMOVE_BUILDING", site |-> "east"]>>

C22_SnapshotFrozen ==
    [][(result.kind = "snapshot" /\ result.interventions \in DOMAIN lists')
          => lists'[result.interventions] = lists[result.interventions]]_vars

====
